---- MODULE Spec2Model ----
(***************************************************************************)
(* SpeakPDF backend: extraction of a text buffer with a parallel           *)
(* coordinate array (pdf_parser.py), paragraph/sentence segmentation       *)
(* (nlp.py), the sentence-position alignment loop of upload_pdf and the    *)
(* handling of upload requests by the server (main.py).                    *)
(*                                                                         *)
(* A Python str is modelled as a sequence of one-character strings.        *)
(* Python indices are 0-based and are kept 0-based in the variables;       *)
(* text[i] of the code is text[i + 1] here.                                *)
(***************************************************************************)
EXTENDS Integers, Sequences, FiniteSets, TLC

VARIABLES
    pc,                 \* position of the request in the pipeline
    \* ---- extract_text_with_coordinates (pdf_parser.py)
    page,               \* the page being processed (doc[page_num]): its
                        \* rect, tables and images
    page_num,           \* 0-based index of the page being processed
    sorted_blocks,      \* the current page's text blocks in processing order
    heading_threshold,  \* 10 * the heading threshold of the current page
    bi,                 \* number of blocks of sorted_blocks already taken
    li,                 \* number of lines of the current block already taken
    block_text, block_chars, is_heading,
    full_text, char_map,
    emitted,            \* the blocks appended to full_text so far, each with
                        \* the number of its page
    \* ---- upload_pdf / split_into_sentences (main.py, nlp.py)
    text,               \* the text buffer upload_pdf aligns against
    chunks, ci,         \* text.split("\n\n") and the number of chunks taken
    sents,              \* detector spans of the current chunk not yet taken
    sentences, global_id,
    \* ---- alignment loop of upload_pdf (main.py)
    si,                 \* number of sentences already taken by `for s in`
    current_idx, s_text_clean, match_start, s_ptr, temp_idx,
    enriched_sentences,
    slices,             \* per emitted sentence, the slice <<start, end>> its
                        \* bboxes were cut from, <<-1, -1>> for an empty list
    first_run,          \* the slices and the cursor an earlier run of the
                        \* loop over the same sentence records ended with
    \* ---- the server: requests to upload_pdf and the file they write
    requests,           \* per request, where it is in upload_pdf and its locals
    uploaded_pdf        \* the content of /static/uploaded.pdf

extract_vars == <<page, page_num, sorted_blocks, heading_threshold, bi, li,
                  block_text, block_chars, is_heading, full_text, emitted>>
split_vars   == <<chunks, ci, sents, sentences, global_id>>
align_vars   == <<si, current_idx, s_text_clean, match_start, s_ptr, temp_idx,
                  enriched_sentences, slices>>
request_vars == <<requests, uploaded_pdf>>
vars == <<pc, extract_vars, char_map, text, split_vars, align_vars, first_run,
          request_vars>>

----------------------------------------------------------------------------
(* Bounds of the model *)
MaxText == 3        \* longest text buffer drawn for the alignment loop
MaxSentChars == 3   \* most characters of a sentence list drawn for that loop
MaxPages == 2       \* most pages of a document
MaxBlocks == 2      \* most blocks of a page
MaxSplitText == 6   \* longest text drawn for split_into_sentences alone
MaxParaChars == 4   \* most characters in the paragraphs of a text drawn for
                    \* segmentation followed by alignment
MaxUploadText == 8  \* longest extracted text that is followed through
                    \* segmentation and alignment
MaxRequests == 2    \* most requests to upload_pdf the server is given

----------------------------------------------------------------------------
(* Python str primitives *)

\* str.isspace() on one character (the whitespace characters of the model)
IsSpace(c) == c \in {" ", "\n", "\t", "\r"}

\* s[a:b] for 0 <= a, b (Python slice: empty when a >= b, clipped at len)
Slice(s, a, b) ==
    LET hi == IF b < Len(s) THEN b ELSE Len(s)
    IN  IF a >= hi THEN << >> ELSE SubSeq(s, a + 1, hi)

\* s.startswith(sub, i)
StartsWithAt(s, sub, i) ==
    /\ i + Len(sub) <= Len(s)
    /\ \A k \in 1..Len(sub) : s[i + k] = sub[k]

\* s.find(sub, start): lowest index >= start where sub occurs, else -1
Find(s, sub, start) ==
    LET hits == {i \in start..Len(s) : StartsWithAt(s, sub, i)}
    IN  IF hits = {} THEN -1
        ELSE CHOOSE i \in hits : \A j \in hits : i <= j

\* s.strip()
RECURSIVE LStrip(_)
LStrip(s) == IF s # << >> /\ IsSpace(Head(s)) THEN LStrip(Tail(s)) ELSE s
RECURSIVE RStrip(_)
RStrip(s) == IF s # << >> /\ IsSpace(s[Len(s)])
             THEN RStrip(SubSeq(s, 1, Len(s) - 1)) ELSE s
Strip(s) == RStrip(LStrip(s))

\* "".join(s.split()): s with every whitespace character removed
JoinSplit(s) == SelectSeq(s, LAMBDA c : ~IsSpace(c))

\* sequences over S of length lo..hi
SeqsOf(S, lo, hi) == UNION {[1..n -> S] : n \in lo..hi}

\* the pieces of s between the cut positions in cuts, in order
RECURSIVE CutAt(_, _)
CutAt(s, cuts) ==
    IF cuts = {} THEN <<s>>
    ELSE LET c == CHOOSE x \in cuts : \A y \in cuts : x <= y
         IN  <<SubSeq(s, 1, c)>>
               \o CutAt(SubSeq(s, c + 1, Len(s)), {y - c : y \in cuts \ {c}})

\* every way to cut s into consecutive non-empty pieces
Cuttings(s) ==
    IF s = << >> THEN {<< >>}
    ELSE {CutAt(s, cuts) : cuts \in SUBSET (1..(Len(s) - 1))}

----------------------------------------------------------------------------
(* Coordinate records *)

\* one entry of char_map; the optional keys is_space / is_newline of the
\* Python dict are the flag "space" / "newline", their absence is "none"
CharRec(page_no, x, y, width, height, page_height, page_width, flag) ==
    [page |-> page_no, x |-> x, y |-> y, width |-> width, height |-> height,
     page_height |-> page_height, page_width |-> page_width, flag |-> flag]

\* a coordinate array of the same length as t, for alignment runs that start
\* from a given text buffer: one glyph of width 10 per character on one line
LineMap(t) == [i \in 1..Len(t) |->
                 CharRec(1, 10 * (i - 1), 0, 10, 10, 100, 100, "none")]

----------------------------------------------------------------------------
(* The PDF model: what fitz reports for a page *)

\* a rectangle is <<x0, y0, x1, y1>>, top-left origin
\* one entry of span["chars"]: a glyph of width 6 and height 10
Glyph(c, x, y) == [c |-> c, bbox |-> <<x, y, x + 6, y + 10>>]

\* a span of the given font size whose glyphs run rightwards from (x, y)
Span(size, x, y, cs) ==
    [size |-> size,
     bbox |-> <<x, y, x + 6 * Len(cs), y + 10>>,
     chars |-> [k \in 1..Len(cs) |-> Glyph(cs[k], x + 6 * (k - 1), y)]]

Line(spans) == [spans |-> spans]

Block(type, bbox, lines) == [type |-> type, bbox |-> bbox, lines |-> lines]

\* the blocks pages are made of, on a page 200 high whose header margin ends
\* at y = 10 and whose footer margin starts at y = 190
BodyBlock ==        \* one line "ab" in two spans, stored right to left
    Block(0, <<20, 4, 32, 14>>,
          <<Line(<<Span(10, 26, 4, <<"b">>), Span(10, 20, 4, <<"a">>)>>)>>)
MultiLineBlock ==   \* "c ", "d" and "k\r"; its box overlaps the table, its
                    \* centre lies outside
    Block(0, <<4, 12, 16, 46>>,
          <<Line(<<Span(10, 4, 12, <<"c", " ">>)>>),
            Line(<<Span(10, 4, 24, <<"d">>)>>),
            Line(<<Span(10, 4, 36, <<"k", "\r">>)>>)>>)
BlankBlock ==       \* one line " "; its top edge is on the footer margin line
    Block(0, <<30, 190, 36, 200>>,
          <<Line(<<Span(10, 30, 190, <<" ">>)>>)>>)
HeadingBlock ==     \* large type; a glyph with no character; an empty line;
                    \* its bottom edge is on the header margin line
    Block(0, <<40, 0, 58, 10>>,
          <<Line(<<Span(14, 40, 0, <<"e", "", "f">>)>>),
            Line(<< >>)>>)
HeaderBlock ==      \* wholly above the header margin line
    Block(0, <<10, 0, 16, 8>>,
          <<Line(<<Span(10, 10, 0, <<"h">>)>>)>>)
FooterBlock ==      \* wholly below the footer margin line
    Block(0, <<10, 192, 16, 200>>,
          <<Line(<<Span(10, 10, 192, <<"g">>)>>)>>)
TableBlock ==       \* its centre lies in the table
    Block(0, <<40, 110, 46, 120>>,
          <<Line(<<Span(10, 40, 110, <<"t">>)>>)>>)
ImageBlock ==       \* its centre lies in the image
    Block(0, <<40, 160, 46, 170>>,
          <<Line(<<Span(10, 40, 160, <<"i">>)>>)>>)

BlockSet == {BodyBlock, MultiLineBlock, BlankBlock, HeadingBlock, HeaderBlock,
             FooterBlock, TableBlock, ImageBlock}

\* page.rect, page.find_tables(), page.get_image_rects(), and the blocks of
\* page.get_text("rawdict")
Page(blocks) ==
    [height |-> 200, width |-> 100,
     tables |-> {<<12, 40, 80, 140>>},
     images |-> {<<20, 150, 80, 180>>},
     blocks |-> blocks]

\* the pages: at most MaxBlocks blocks in any stored order, no block twice
Pages ==
    {Page(bs) : bs \in {s \in SeqsOf(BlockSet, 0, MaxBlocks) :
                            \A i, j \in 1..Len(s) : i # j => s[i] # s[j]}}

\* what the loop keeps of a page once its blocks are sorted: page.rect,
\* table_bboxes and image_bboxes
PageFrame(p) == [height |-> p.height, width |-> p.width,
                 tables |-> p.tables, images |-> p.images]

NoPage == PageFrame(Page(<< >>))

----------------------------------------------------------------------------
(* extract_text_with_coordinates *)

\* [b for b in blocks if b.get("type") == 0]
TextBlocks(p) == SelectSeq(p.blocks, LAMBDA b : b.type = 0)

RECURSIVE Concat(_)
Concat(ss) == IF ss = << >> THEN << >> ELSE Head(ss) \o Concat(Tail(ss))

\* insertion of n into the sorted list of numbers s
RECURSIVE InsertNum(_, _)
InsertNum(n, s) ==
    IF s = << >> THEN <<n>>
    ELSE IF n < Head(s) THEN <<n>> \o s
    ELSE <<Head(s)>> \o InsertNum(n, Tail(s))
RECURSIVE SortNums(_)
SortNums(s) ==
    IF s = << >> THEN << >>
    ELSE InsertNum(s[Len(s)], SortNums(SubSeq(s, 1, Len(s) - 1)))

\* the sizes of all spans of the page's text blocks that have one, sorted
FontSizes(p) ==
    LET spans == Concat([i \in 1..Len(TextBlocks(p)) |->
                           Concat([j \in 1..Len(TextBlocks(p)[i].lines) |->
                                     TextBlocks(p)[i].lines[j].spans])])
        sized == SelectSeq(spans, LAMBDA sp : sp.size # 0)
    IN  SortNums([k \in 1..Len(sized) |-> sized[k].size])

\* 10 * heading_threshold: 1.1 times the median font size, or 100
HeadingThreshold(p) ==
    LET font_sizes == FontSizes(p)
        median_size == IF font_sizes # << >>
                       THEN font_sizes[(Len(font_sizes) \div 2) + 1] ELSE 0
    IN  IF median_size > 0 THEN 11 * median_size ELSE 1000

\* a sort key (b["bbox"][1], b["bbox"][0]) with no rows of ten
BlockKeyLessExact(a, b) ==
    \/ a.bbox[2] < b.bbox[2]
    \/ (a.bbox[2] = b.bbox[2] /\ a.bbox[1] < b.bbox[1])

\* the sort key (b["bbox"][1] // 10, b["bbox"][0]), compared as tuples
BlockKeyLess(a, b) ==
    \/ a.bbox[2] \div 10 < b.bbox[2] \div 10
    \/ (a.bbox[2] \div 10 = b.bbox[2] \div 10 /\ a.bbox[1] < b.bbox[1])

\* sorted(): stable, so a block goes after the blocks its key is not less than
RECURSIVE InsertBlock(_, _)
InsertBlock(b, s) ==
    IF s = << >> THEN <<b>>
    ELSE IF BlockKeyLess(b, Head(s)) THEN <<b>> \o s
    ELSE <<Head(s)>> \o InsertBlock(b, Tail(s))
RECURSIVE SortBlocks(_)
SortBlocks(bs) ==
    IF bs = << >> THEN << >>
    ELSE InsertBlock(bs[Len(bs)], SortBlocks(SubSeq(bs, 1, Len(bs) - 1)))

\* sorted(line.get("spans", []), key=lambda s: s["bbox"][0])
RECURSIVE InsertSpan(_, _)
InsertSpan(sp, s) ==
    IF s = << >> THEN <<sp>>
    ELSE IF sp.bbox[1] < Head(s).bbox[1] THEN <<sp>> \o s
    ELSE <<Head(s)>> \o InsertSpan(sp, Tail(s))
RECURSIVE SortSpans(_)
SortSpans(sps) ==
    IF sps = << >> THEN << >>
    ELSE InsertSpan(sps[Len(sps)], SortSpans(SubSeq(sps, 1, Len(sps) - 1)))

\* margin tests that take in a box whose edge is on the margin line
InMarginClosed(p, bbox) ==
    \/ 100 * bbox[4] <= 5 * p.height
    \/ 100 * bbox[2] >= 95 * p.height

\* bbox.y1 < header_height or bbox.y0 > footer_y, the margins being 5% of the
\* page height
InMargin(p, bbox) ==
    \/ 100 * bbox[4] < 5 * p.height
    \/ 100 * bbox[2] > 95 * p.height

\* block_center in rect: fitz tests x0 <= x < x1 and y0 <= y < y1; the centre
\* is ((x0 + x1) / 2, (y0 + y1) / 2), compared here doubled
CenterIn(bbox, rect) ==
    /\ 2 * rect[1] <= bbox[1] + bbox[3] /\ bbox[1] + bbox[3] < 2 * rect[3]
    /\ 2 * rect[2] <= bbox[2] + bbox[4] /\ bbox[2] + bbox[4] < 2 * rect[4]

\* the three `continue` tests of the block loop
Filtered(p, b) ==
    \/ InMargin(p, b.bbox)
    \/ \E t \in p.tables : CenterIn(b.bbox, t)
    \/ \E i \in p.images : CenterIn(b.bbox, i)

\* the glyphs of a line that carry a character, spans left to right
LineGlyphs(line) ==
    LET spans == SortSpans(line.spans)
    IN  SelectSeq(Concat([k \in 1..Len(spans) |-> spans[k].chars]),
                  LAMBDA g : g.c # "")

\* the record of one glyph, y measured from the bottom of the page
GlyphRec(p, pn, g) ==
    LET c_height == g.bbox[4] - g.bbox[2]
        c_y_bottom == p.height - g.bbox[2] - c_height
    IN  CharRec(pn + 1, g.bbox[1], c_y_bottom, g.bbox[3] - g.bbox[1],
                c_height, p.height, p.width, "none")

\* line_text.endswith((" ", "\n", "\t"))
EndsWithSpace(line_text) ==
    line_text # << >> /\ line_text[Len(line_text)] \in {" ", "\n", "\t"}

\* the record of the space added after a line whose last record is last
SpaceRec(last) ==
    CharRec(last.page, last.x + last.width, last.y, last.width, last.height,
            last.page_height, last.page_width, "space")

\* the record of a separator newline after a block whose last record is last
NewlineRec(last) ==
    CharRec(last.page, last.x, last.y, 0, last.height,
            last.page_height, last.page_width, "newline")

\* the block the block loop is at
CurBlock == sorted_blocks[bi + 1]

\* a trim step that shortens the text and leaves the records alone
TrimStepNoPop ==
    /\ pc = "trim"
    /\ block_text # << >> /\ IsSpace(block_text[Len(block_text)])
    /\ block_text' = SubSeq(block_text, 1, Len(block_text) - 1)
    /\ UNCHANGED <<pc, page, page_num, sorted_blocks, heading_threshold, bi,
                   li, block_chars, is_heading, full_text, emitted, char_map,
                   text, split_vars, align_vars,
                   request_vars, first_run>>

\* a separator of two newlines after a heading and of one after other blocks
AppendSeparatorByHeading ==
    /\ pc = "sep"
    /\ LET n == IF is_heading THEN 2 ELSE 1
       IN  /\ full_text' = full_text \o [k \in 1..n |-> "\n"]
           /\ char_map' = IF block_chars # << >>
                          THEN char_map \o [k \in 1..n |->
                                   NewlineRec(block_chars[Len(block_chars)])]
                          ELSE char_map
    /\ bi' = bi + 1
    /\ pc' = "block"
    /\ li' = 0
    /\ block_text' = << >>
    /\ block_chars' = << >>
    /\ is_heading' = FALSE
    /\ UNCHANGED <<page, page_num, sorted_blocks, heading_threshold, emitted,
                   text, split_vars, align_vars,
                   request_vars, first_run>>

\* for page_num in range(len(doc)): the next page is read, its heading
\* threshold computed and its text blocks sorted
BeginPage ==
    /\ pc = "page"
    /\ page_num < MaxPages
    /\ \E p \in Pages :
          /\ page' = PageFrame(p)
          /\ heading_threshold' = HeadingThreshold(p)
          /\ sorted_blocks' = SortBlocks(TextBlocks(p))
    /\ bi' = 0
    /\ pc' = "block"
    /\ UNCHANGED <<page_num, li, block_text, block_chars, is_heading,
                   full_text, emitted, char_map, text, split_vars, align_vars,
                   request_vars, first_run>>

\* for block in sorted_blocks: a filtered block is passed over, any other
\* starts with an empty block_text and block_chars
NextBlock ==
    /\ pc = "block"
    /\ bi < Len(sorted_blocks)
    /\ IF Filtered(page, CurBlock)
       THEN /\ bi' = bi + 1
            /\ UNCHANGED <<pc, li, block_text, block_chars, is_heading>>
       ELSE /\ block_text' = << >>
            /\ block_chars' = << >>
            /\ is_heading' = FALSE
            /\ li' = 0
            /\ pc' = "line"
            /\ UNCHANGED bi
    /\ UNCHANGED <<page, page_num, sorted_blocks, heading_threshold,
                   full_text, emitted, char_map, text, split_vars, align_vars,
                   request_vars, first_run>>

\* for line in block["lines"]: the line's glyphs and records are appended,
\* and a space with its record unless the line ends in " ", "\n" or "\t"
NextLine ==
    /\ pc = "line"
    /\ li < Len(CurBlock.lines)
    /\ LET line == CurBlock.lines[li + 1]
           glyphs == LineGlyphs(line)
           line_text == [k \in 1..Len(glyphs) |-> glyphs[k].c]
           line_chars == [k \in 1..Len(glyphs) |->
                            GlyphRec(page, page_num, glyphs[k])]
       IN  /\ is_heading' = (is_heading \/
                 \E k \in 1..Len(line.spans) :
                     10 * line.spans[k].size > heading_threshold)
           /\ IF line_text = << >>
              THEN UNCHANGED <<block_text, block_chars>>
              ELSE IF EndsWithSpace(line_text)
              THEN /\ block_text' = block_text \o line_text
                   /\ block_chars' = block_chars \o line_chars
              ELSE /\ block_text' = block_text \o line_text \o <<" ">>
                   /\ block_chars' =
                        IF line_chars # << >>
                        THEN block_chars \o line_chars
                               \o <<SpaceRec(line_chars[Len(line_chars)])>>
                        ELSE block_chars \o line_chars
    /\ li' = li + 1
    /\ UNCHANGED <<pc, page, page_num, sorted_blocks, heading_threshold, bi,
                   full_text, emitted, char_map, text, split_vars, align_vars,
                   request_vars, first_run>>

\* an end of the line loop that sends a blank block on to its separator
EndLinesSeparateBlank ==
    /\ pc = "line"
    /\ li = Len(CurBlock.lines)
    /\ IF Strip(block_text) # << >>
       THEN /\ pc' = "trim"
            /\ UNCHANGED <<bi, li, block_text, block_chars, is_heading>>
       ELSE /\ pc' = "sep"
            /\ UNCHANGED <<bi, li, block_text, block_chars, is_heading>>
    /\ UNCHANGED <<page, page_num, sorted_blocks, heading_threshold,
                   full_text, emitted, char_map, text, split_vars, align_vars,
                   request_vars, first_run>>

\* the lines are exhausted: a block that is blank is dropped, any other goes
\* on to the trimming of its trailing whitespace.  The locals of a block that
\* is left are not read again before lines 81-89 assign them anew, and are
\* cleared.
EndLines ==
    /\ pc = "line"
    /\ li = Len(CurBlock.lines)
    /\ IF Strip(block_text) # << >>
       THEN /\ pc' = "trim"
            /\ UNCHANGED <<bi, li, block_text, block_chars, is_heading>>
       ELSE /\ pc' = "block"
            /\ bi' = bi + 1
            /\ li' = 0
            /\ block_text' = << >>
            /\ block_chars' = << >>
            /\ is_heading' = FALSE
    /\ UNCHANGED <<page, page_num, sorted_blocks, heading_threshold,
                   full_text, emitted, char_map, text, split_vars, align_vars,
                   request_vars, first_run>>

\* while block_text and block_text[-1].isspace(): one character and one
\* record are dropped
TrimStep ==
    /\ pc = "trim"
    /\ block_text # << >> /\ IsSpace(block_text[Len(block_text)])
    /\ block_text' = SubSeq(block_text, 1, Len(block_text) - 1)
    /\ block_chars' = IF block_chars # << >>
                      THEN SubSeq(block_chars, 1, Len(block_chars) - 1)
                      ELSE block_chars
    /\ UNCHANGED <<pc, page, page_num, sorted_blocks, heading_threshold, bi,
                   li, is_heading, full_text, emitted, char_map, text,
                   split_vars, align_vars,
                   request_vars, first_run>>

\* full_text += block_text; char_map.extend(block_chars)
AppendBlock ==
    /\ pc = "trim"
    /\ ~(block_text # << >> /\ IsSpace(block_text[Len(block_text)]))
    /\ full_text' = full_text \o block_text
    /\ char_map' = char_map \o block_chars
    /\ emitted' = Append(emitted, [page |-> page_num + 1, block |-> CurBlock])
    /\ pc' = "sep"
    /\ UNCHANGED <<page, page_num, sorted_blocks, heading_threshold, bi, li,
                   block_text, block_chars, is_heading, text, split_vars,
                   align_vars,
                   request_vars, first_run>>

\* full_text += "\n\n", with two newline records copied from the block's
\* last record; the block's locals are cleared as in EndLines
AppendSeparator ==
    /\ pc = "sep"
    /\ full_text' = full_text \o <<"\n", "\n">>
    /\ char_map' = IF block_chars # << >>
                   THEN char_map \o [k \in 1..2 |->
                            NewlineRec(block_chars[Len(block_chars)])]
                   ELSE char_map
    /\ bi' = bi + 1
    /\ pc' = "block"
    /\ li' = 0
    /\ block_text' = << >>
    /\ block_chars' = << >>
    /\ is_heading' = FALSE
    /\ UNCHANGED <<page, page_num, sorted_blocks, heading_threshold, emitted,
                   text, split_vars, align_vars,
                   request_vars, first_run>>

\* sorted_blocks is exhausted: on to the next page.  The locals of the page
\* are not read again before lines 24-66 assign them anew, and are cleared.
EndPage ==
    /\ pc = "block"
    /\ bi = Len(sorted_blocks)
    /\ page_num' = page_num + 1
    /\ page' = NoPage
    /\ sorted_blocks' = << >>
    /\ heading_threshold' = 0
    /\ bi' = 0
    /\ pc' = "page"
    /\ UNCHANGED <<li, block_text, block_chars, is_heading, full_text,
                   emitted, char_map, text, split_vars, align_vars,
                   request_vars, first_run>>

\* the document has no further page: doc.close(); return full_text, char_map
\* to upload_pdf, which names them text and char_map
ReturnExtract ==
    /\ pc = "page"
    /\ text' = full_text
    /\ pc' = "split"
    /\ UNCHANGED <<extract_vars, char_map, split_vars, align_vars,
                   request_vars, first_run>>

NextExtract ==
    \/ BeginPage \/ NextBlock \/ NextLine \/ EndLines \/ TrimStep
    \/ AppendBlock \/ AppendSeparator \/ EndPage \/ ReturnExtract

----------------------------------------------------------------------------
(* Alignment loop of upload_pdf *)

\* the while condition of the strict scan
ScanGuard == temp_idx < Len(text) /\ s_ptr < Len(s_text_clean)

\* a restart that resumes at the abandoned attempt's own start
RestartIdxSame(ms, tmp) == ms

\* a restart that goes on past the mismatching character
RestartIdxPast(ms, tmp) == tmp + 1

\* where the scan resumes after a partial match is abandoned
RestartIdx(ms, tmp) == ms + 1

\* the loop head with a scan that starts at the top of the buffer instead of
\* at the cursor
BeginSentenceFromTop ==
    /\ pc = "align"
    /\ si < Len(sentences)
    /\ LET s == sentences[si + 1]
           clean == JoinSplit(s.text)
       IN  /\ s_text_clean' = clean
           /\ IF clean = << >>
              THEN /\ enriched_sentences' = Append(enriched_sentences,
                          [id |-> s.id, text |-> s.text, bboxes |-> << >>])
                   /\ slices' = Append(slices, <<-1, -1>>)
                   /\ si' = si + 1
                   /\ pc' = "align"
                   /\ UNCHANGED <<match_start, s_ptr, temp_idx>>
              ELSE /\ match_start' = -1
                   /\ s_ptr' = 0
                   /\ temp_idx' = 0
                   /\ pc' = "scan"
                   /\ UNCHANGED <<enriched_sentences, slices, si>>
    /\ UNCHANGED <<current_idx, extract_vars, char_map, text, split_vars,
                   request_vars, first_run>>

\* the loop head with a scan that starts one character after the cursor
BeginSentenceSkipOne ==
    /\ pc = "align"
    /\ si < Len(sentences)
    /\ LET s == sentences[si + 1]
           clean == JoinSplit(s.text)
       IN  /\ s_text_clean' = clean
           /\ IF clean = << >>
              THEN /\ enriched_sentences' = Append(enriched_sentences,
                          [id |-> s.id, text |-> s.text, bboxes |-> << >>])
                   /\ slices' = Append(slices, <<-1, -1>>)
                   /\ si' = si + 1
                   /\ pc' = "align"
                   /\ UNCHANGED <<match_start, s_ptr, temp_idx>>
              ELSE /\ match_start' = -1
                   /\ s_ptr' = 0
                   /\ temp_idx' = current_idx + 1
                   /\ pc' = "scan"
                   /\ UNCHANGED <<enriched_sentences, slices, si>>
    /\ UNCHANGED <<current_idx, extract_vars, char_map, text, split_vars,
                   request_vars, first_run>>

\* for s in sentences: the next sentence is taken; an all-whitespace sentence
\* is emitted with no boxes, any other starts the strict scan
BeginSentence ==
    /\ pc = "align"
    /\ si < Len(sentences)
    /\ LET s == sentences[si + 1]
           clean == JoinSplit(s.text)
       IN  /\ s_text_clean' = clean
           /\ IF clean = << >>
              THEN /\ enriched_sentences' = Append(enriched_sentences,
                          [id |-> s.id, text |-> s.text, bboxes |-> << >>])
                   /\ slices' = Append(slices, <<-1, -1>>)
                   /\ si' = si + 1
                   /\ pc' = "align"
                   /\ UNCHANGED <<match_start, s_ptr, temp_idx>>
              ELSE /\ match_start' = -1
                   /\ s_ptr' = 0
                   /\ temp_idx' = current_idx
                   /\ pc' = "scan"
                   /\ UNCHANGED <<enriched_sentences, slices, si>>
    /\ UNCHANGED <<current_idx, extract_vars, char_map, text, split_vars,
                   request_vars, first_run>>

\* a loop body that steps over a mismatch inside a partial match without
\* abandoning the match
ScanStepNoReset ==
    /\ pc = "scan"
    /\ ScanGuard
    /\ LET char == text[temp_idx + 1]
       IN  IF IsSpace(char)
           THEN /\ temp_idx' = temp_idx + 1
                /\ UNCHANGED <<match_start, s_ptr>>
           ELSE IF char = s_text_clean[s_ptr + 1]
           THEN /\ match_start' = IF match_start = -1 THEN temp_idx
                                                      ELSE match_start
                /\ s_ptr' = s_ptr + 1
                /\ temp_idx' = temp_idx + 1
           ELSE /\ temp_idx' = temp_idx + 1
                /\ UNCHANGED <<match_start, s_ptr>>
    /\ UNCHANGED <<pc, si, current_idx, s_text_clean, enriched_sentences,
                   slices, extract_vars, char_map, text, split_vars,
                   request_vars, first_run>>

\* one iteration of the while loop of the strict scan
ScanStep ==
    /\ pc = "scan"
    /\ ScanGuard
    /\ LET char == text[temp_idx + 1]
       IN  IF IsSpace(char)
           THEN /\ temp_idx' = temp_idx + 1
                /\ UNCHANGED <<match_start, s_ptr>>
           ELSE IF char = s_text_clean[s_ptr + 1]
           THEN /\ match_start' = IF match_start = -1 THEN temp_idx
                                                      ELSE match_start
                /\ s_ptr' = s_ptr + 1
                /\ temp_idx' = temp_idx + 1
           ELSE IF match_start # -1
           THEN /\ temp_idx' = RestartIdx(match_start, temp_idx)
                /\ match_start' = -1
                /\ s_ptr' = 0
           ELSE /\ temp_idx' = temp_idx + 1
                /\ UNCHANGED <<match_start, s_ptr>>
    /\ UNCHANGED <<pc, si, current_idx, s_text_clean, enriched_sentences,
                   slices, extract_vars, char_map, text, split_vars,
                   request_vars, first_run>>

\* the slice a sentence gets once the scan has stopped: the strict match, else
\* the literal find of the untouched sentence text, else none
MatchedSlice(s_text) ==
    IF match_start # -1 /\ s_ptr = Len(s_text_clean)
    THEN <<match_start, temp_idx>>
    ELSE LET start == Find(text, s_text, current_idx)
         IN  IF start # -1 THEN <<start, start + Len(s_text)>>
                           ELSE <<-1, -1>>

\* a cursor that stays where it was after a match
NextCursorStuck(sl) == current_idx

\* a cursor set one past the end of the slice
NextCursorPast(sl) == IF sl = <<-1, -1>> THEN current_idx ELSE sl[2] + 1

\* a miss that leaves the scan position in the cursor
NextCursorLeak(sl) == IF sl = <<-1, -1>> THEN temp_idx ELSE sl[2]

\* the cursor after a sentence whose slice is sl
NextCursor(sl) == IF sl = <<-1, -1>> THEN current_idx ELSE sl[2]

\* an exit of the scan that emits no record for a sentence it did not find
FinishSentenceDropMiss ==
    /\ pc = "scan"
    /\ ~ScanGuard
    /\ LET s == sentences[si + 1]
           sl == MatchedSlice(s.text)
       IN  /\ IF sl = <<-1, -1>>
              THEN UNCHANGED <<enriched_sentences, slices>>
              ELSE /\ enriched_sentences' = Append(enriched_sentences,
                          [id |-> s.id, text |-> s.text,
                           bboxes |-> Slice(char_map, sl[1], sl[2])])
                   /\ slices' = Append(slices, sl)
           /\ current_idx' = NextCursor(sl)
    /\ si' = si + 1
    /\ pc' = "align"
    /\ UNCHANGED <<s_text_clean, match_start, s_ptr, temp_idx,
                   extract_vars, char_map, text, split_vars,
                   request_vars, first_run>>

\* the scan has stopped: the sentence is emitted with its boxes
FinishSentence ==
    /\ pc = "scan"
    /\ ~ScanGuard
    /\ LET s == sentences[si + 1]
           sl == MatchedSlice(s.text)
           bboxes == IF sl = <<-1, -1>> THEN << >>
                     ELSE Slice(char_map, sl[1], sl[2])
       IN  /\ enriched_sentences' = Append(enriched_sentences,
                  [id |-> s.id, text |-> s.text, bboxes |-> bboxes])
           /\ slices' = Append(slices, sl)
           /\ current_idx' = NextCursor(sl)
    /\ si' = si + 1
    /\ pc' = "align"
    /\ UNCHANGED <<s_text_clean, match_start, s_ptr, temp_idx,
                   extract_vars, char_map, text, split_vars,
                   request_vars, first_run>>

\* the for loop is exhausted: upload_pdf returns enriched_sentences
ReturnSentences ==
    /\ pc = "align"
    /\ si = Len(sentences)
    /\ pc' = "done"
    /\ UNCHANGED <<extract_vars, char_map, text, split_vars, align_vars,
                   request_vars, first_run>>

NextAlign == BeginSentence \/ ScanStep \/ FinishSentence \/ ReturnSentences

\* a second run of lines 42-108 that goes on from the cursor the first run
\* ended with
RerunKeepCursor ==
    /\ pc = "done"
    /\ first_run = << >>
    /\ first_run' = <<slices, current_idx>>
    /\ sentences' = enriched_sentences
    /\ enriched_sentences' = << >>
    /\ slices' = << >>
    /\ si' = 0
    /\ pc' = "align"
    /\ UNCHANGED <<current_idx, s_text_clean, match_start, s_ptr, temp_idx,
                   extract_vars, char_map, text, chunks, ci, sents, global_id,
                   request_vars>>

\* lines 42-108 run a second time on the same text, char_map and sentences.
\* The loop wrote "bboxes" into the dicts of `sentences` themselves, so the
\* second run's input is the first run's output records; what the first run
\* ended with is kept in first_run.
Rerun ==
    /\ pc = "done"
    /\ first_run = << >>
    /\ first_run' = <<slices, current_idx>>
    /\ sentences' = enriched_sentences
    /\ current_idx' = 0
    /\ enriched_sentences' = << >>
    /\ slices' = << >>
    /\ si' = 0
    /\ pc' = "align"
    /\ UNCHANGED <<s_text_clean, match_start, s_ptr, temp_idx,
                   extract_vars, char_map, text, chunks, ci, sents, global_id,
                   request_vars>>

NextRerun == NextAlign \/ Rerun

----------------------------------------------------------------------------
(* split_into_sentences *)

\* text.split("\n\n"): the pieces between the leftmost non-overlapping
\* occurrences of the separator (one piece, possibly empty, when there is none)
RECURSIVE SplitParagraphs(_)
SplitParagraphs(t) ==
    LET i == Find(t, <<"\n", "\n">>, 0)
    IN  IF i = -1 THEN <<t>>
        ELSE <<Slice(t, 0, i)>> \o SplitParagraphs(Slice(t, i + 2, Len(t)))

\* _nlp(chunk).sents: the sentence detector is an outside capability; it
\* returns consecutive spans that cover the chunk, at boundaries of its choice
DetectSents(chunk) == Cuttings(chunk)

\* a chunk loop that numbers the sentences of every chunk from 0
NextChunkResetId ==
    /\ pc = "chunk"
    /\ ci < Len(chunks)
    /\ ci' = ci + 1
    /\ LET chunk == Strip(chunks[ci + 1])
       IN  IF chunk = << >>
           THEN UNCHANGED <<pc, sents, global_id>>
           ELSE /\ sents' \in DetectSents(chunk)
                /\ global_id' = 0
                /\ pc' = "sent"
    /\ UNCHANGED <<chunks, sentences, extract_vars, char_map, text, align_vars,
                   request_vars, first_run>>

\* chunks = text.split("\n\n"); sentences = []; global_id = 0
StartSplit ==
    /\ pc = "split"
    /\ chunks' = SplitParagraphs(text)
    /\ ci' = 0
    /\ sents' = << >>
    /\ sentences' = << >>
    /\ global_id' = 0
    /\ pc' = "chunk"
    /\ UNCHANGED <<extract_vars, char_map, text, align_vars,
                   request_vars, first_run>>

\* for chunk in chunks: the chunk is trimmed; an empty one is passed over, any
\* other is handed to the detector
NextChunk ==
    /\ pc = "chunk"
    /\ ci < Len(chunks)
    /\ ci' = ci + 1
    /\ LET chunk == Strip(chunks[ci + 1])
       IN  IF chunk = << >>
           THEN UNCHANGED <<pc, sents>>
           ELSE /\ sents' \in DetectSents(chunk)
                /\ pc' = "sent"
    /\ UNCHANGED <<chunks, sentences, global_id, extract_vars, char_map, text,
                   align_vars,
                   request_vars, first_run>>

\* a sentence loop that appends every span, empty or not
NextSentKeepEmpty ==
    /\ pc = "sent"
    /\ sents # << >>
    /\ sents' = Tail(sents)
    /\ sentences' = Append(sentences,
                           [id |-> global_id, text |-> Strip(Head(sents))])
    /\ global_id' = global_id + 1
    /\ UNCHANGED <<pc, chunks, ci, extract_vars, char_map, text, align_vars,
                   request_vars, first_run>>

\* for sent in doc.sents: the span is trimmed and, unless empty, appended
\* under the next id
NextSent ==
    /\ pc = "sent"
    /\ sents # << >>
    /\ sents' = Tail(sents)
    /\ LET s == Strip(Head(sents))
       IN  IF s # << >>
           THEN /\ sentences' = Append(sentences, [id |-> global_id, text |-> s])
                /\ global_id' = global_id + 1
           ELSE UNCHANGED <<sentences, global_id>>
    /\ UNCHANGED <<pc, chunks, ci, extract_vars, char_map, text, align_vars,
                   request_vars, first_run>>

\* doc.sents is exhausted: back to the chunk loop
EndChunk ==
    /\ pc = "sent"
    /\ sents = << >>
    /\ pc' = "chunk"
    /\ UNCHANGED <<extract_vars, char_map, text, split_vars, align_vars,
                   request_vars, first_run>>

\* return sentences; upload_pdf goes on with current_idx = 0 and
\* enriched_sentences = []
ReturnSplit ==
    /\ pc = "chunk"
    /\ ci = Len(chunks)
    /\ pc' = "align"
    /\ current_idx' = 0
    /\ enriched_sentences' = << >>
    /\ UNCHANGED <<si, s_text_clean, match_start, s_ptr, temp_idx, slices,
                   extract_vars, char_map, text, split_vars,
                   request_vars, first_run>>

NextSplit == StartSplit \/ NextChunk \/ NextSent \/ EndChunk \/ ReturnSplit

----------------------------------------------------------------------------
(* The server: requests to upload_pdf *)

\* str.lower() on one character, for the letters file names are made of
LowerChar(c) ==
    IF c = "A" THEN "a" ELSE IF c = "P" THEN "p" ELSE IF c = "D" THEN "d"
    ELSE IF c = "F" THEN "f" ELSE c

\* s.lower()
Lower(s) == [k \in 1..Len(s) |-> LowerChar(s[k])]

\* s.endswith(suffix)
EndsWith(s, suffix) ==
    /\ Len(suffix) <= Len(s)
    /\ SubSeq(s, Len(s) - Len(suffix) + 1, Len(s)) = suffix

\* file.filename.lower().endswith(".pdf")
HasPdfName(filename) == EndsWith(Lower(filename), <<".", "p", "d", "f">>)

\* the file names and the bodies an upload can have: two documents that are
\* PDFs and one body that is not
Filenames == {<<"a", ".", "p", "d", "f">>, <<"A", ".", "P", "D", "F">>,
              <<"a", ".", "t", "x", "t">>}
Contents == {"pdf1", "pdf2", "junk"}

\* fitz.open(stream=data, filetype="pdf") opens data; it raises on a body
\* that is not a PDF
Opens(data) == data # "junk"

NoResponse == [status |-> 0, detail |-> "", sentences |-> "none",
               pdfUrl |-> ""]

\* a request that has not been received
IdleRequest == [pc |-> "idle", filename |-> << >>, body |-> "none",
                content |-> "none", stage |-> "none", response |-> NoResponse]

\* what the static mount of /static at "/" serves at url
Served(url) == IF url = "/uploaded.pdf" THEN uploaded_pdf ELSE "none"

\* a request arrives with a file of any name and body
Receive(r) ==
    /\ requests[r].pc = "idle"
    /\ \E filename \in Filenames, body \in Contents :
          requests' = [requests EXCEPT ![r] =
              [IdleRequest EXCEPT !.pc = "check", !.filename = filename,
                                  !.body = body, !.stage = "check"]]
    /\ UNCHANGED <<pc, extract_vars, char_map, text, split_vars, align_vars,
                   first_run, uploaded_pdf>>

\* upload_pdf up to its await: a file whose name does not end in .pdf is
\* answered with HTTPException(400); any other request suspends in
\* `await file.read()`
CheckName(r) ==
    /\ requests[r].pc = "check"
    /\ requests' = [requests EXCEPT ![r] =
          IF ~HasPdfName(requests[r].filename)
          THEN [@ EXCEPT !.pc = "responded",
                         !.response = [NoResponse EXCEPT
                             !.status = 400,
                             !.detail = "Please upload a PDF file."]]
          ELSE [@ EXCEPT !.pc = "read", !.stage = "read"]]
    /\ UNCHANGED <<pc, extract_vars, char_map, text, split_vars, align_vars,
                   first_run, uploaded_pdf>>

\* upload_pdf from the return of file.read() to its end, with no await in
\* between: content is written to /static/uploaded.pdf and handed to
\* extract_text_with_coordinates; if fitz.open raises there, the exception
\* leaves upload_pdf and the server answers 500; else the sentences of content
\* are segmented, aligned and returned with the fixed pdfUrl
Resume(r) ==
    /\ requests[r].pc = "read"
    /\ LET content == requests[r].body
       IN  /\ uploaded_pdf' = content
           /\ requests' = [requests EXCEPT ![r] =
                 IF ~Opens(content)
                 THEN [@ EXCEPT !.pc = "responded", !.content = content,
                                !.stage = "extract",
                                !.response = [NoResponse EXCEPT
                                    !.status = 500,
                                    !.detail = "Internal Server Error"]]
                 ELSE [@ EXCEPT !.pc = "responded", !.content = content,
                                !.stage = "return",
                                !.response = [NoResponse EXCEPT
                                    !.status = 200,
                                    !.sentences = content,
                                    !.pdfUrl = "/uploaded.pdf"]]]
    /\ UNCHANGED <<pc, extract_vars, char_map, text, split_vars, align_vars,
                   first_run>>

NextServer ==
    \E r \in 1..MaxRequests : Receive(r) \/ CheckName(r) \/ Resume(r)

----------------------------------------------------------------------------
(* Initial states *)

\* variables of extraction when no extraction is modelled
ExtractIdle ==
    /\ page = NoPage /\ page_num = 0 /\ sorted_blocks = << >>
    /\ heading_threshold = 0 /\ bi = 0 /\ li = 0
    /\ block_text = << >> /\ block_chars = << >> /\ is_heading = FALSE
    /\ full_text = << >> /\ emitted = << >>

\* variables of the alignment loop before line 42 has run
AlignStart ==
    /\ si = 0 /\ current_idx = 0 /\ s_text_clean = << >>
    /\ match_start = -1 /\ s_ptr = 0 /\ temp_idx = 0
    /\ enriched_sentences = << >> /\ slices = << >>
    /\ first_run = << >>

\* no request to the server is modelled
NoRequests == requests = << >> /\ uploaded_pdf = "none"

AlignChars == {"a", "b", " "}

\* sentence lists with ids 0..n-1 in list order
SentenceLists ==
    UNION {{[i \in 1..Len(ts) |-> [id |-> i - 1, text |-> ts[i]]] :
              ts \in Cuttings(w)} :
           w \in SeqsOf(AlignChars, 0, MaxSentChars)}

\* the alignment loop on any text buffer and any sentence list
InitAlign ==
    /\ pc = "align"
    /\ ExtractIdle
    /\ text \in SeqsOf(AlignChars, 0, MaxText)
    /\ char_map = LineMap(text)
    /\ chunks = << >> /\ ci = 0 /\ sents = << >> /\ global_id = 0
    /\ sentences \in SentenceLists
    /\ AlignStart
    /\ NoRequests

SpecAlign == InitAlign /\ [][NextAlign]_vars

\* extract_text_with_coordinates on any document of at most MaxPages pages
InitExtract ==
    /\ pc = "page"
    /\ page = NoPage /\ page_num = 0 /\ sorted_blocks = << >>
    /\ heading_threshold = 0 /\ bi = 0 /\ li = 0
    /\ block_text = << >> /\ block_chars = << >> /\ is_heading = FALSE
    /\ full_text = << >> /\ emitted = << >>
    /\ char_map = << >>
    /\ text = << >>
    /\ chunks = << >> /\ ci = 0 /\ sents = << >>
    /\ sentences = << >> /\ global_id = 0
    /\ AlignStart
    /\ NoRequests

SpecExtract == InitExtract /\ [][NextExtract]_vars

SplitStart ==
    /\ chunks = << >> /\ ci = 0 /\ sents = << >>
    /\ sentences = << >> /\ global_id = 0

SplitChars == {"a", " ", "\n"}

\* split_into_sentences on any text
InitSplit ==
    /\ pc = "split"
    /\ ExtractIdle
    /\ text \in SeqsOf(SplitChars, 0, MaxSplitText)
    /\ char_map = LineMap(text)
    /\ SplitStart
    /\ AlignStart
    /\ NoRequests

SpecSplit == InitSplit /\ [][NextSplit]_vars

PipeChars == {"a", "b", " ", "\n"}

\* a block text extraction can emit: not blank, no trailing whitespace
IsParagraph(p) == Strip(p) # << >> /\ ~IsSpace(p[Len(p)])

\* the lists of paragraphs of at most MaxParaChars characters in all
ParagraphLists ==
    UNION {{ps \in Cuttings(w) : \A i \in 1..Len(ps) : IsParagraph(ps[i])} :
           w \in SeqsOf(PipeChars, 0, MaxParaChars)}

\* the paragraphs ps, each followed by the separator except, when last_sep is
\* false, the last
RECURSIVE JoinParagraphs(_, _)
JoinParagraphs(ps, last_sep) ==
    IF ps = << >> THEN << >>
    ELSE IF Len(ps) = 1 /\ ~last_sep THEN Head(ps)
    ELSE Head(ps) \o <<"\n", "\n">> \o JoinParagraphs(Tail(ps), last_sep)

\* segmentation and alignment of a text buffer made of paragraphs
InitPipe ==
    /\ pc = "split"
    /\ ExtractIdle
    /\ \E ps \in ParagraphLists, last_sep \in BOOLEAN :
          text = JoinParagraphs(ps, last_sep)
    /\ char_map = LineMap(text)
    /\ SplitStart
    /\ AlignStart
    /\ NoRequests

NextPipe == NextSplit \/ NextAlign

SpecPipe == InitPipe /\ [][NextPipe]_vars


\* the server with no request received and no file written
InitServer ==
    /\ pc = "server"
    /\ ExtractIdle
    /\ char_map = << >> /\ text = << >>
    /\ SplitStart
    /\ AlignStart
    /\ requests = [r \in 1..MaxRequests |-> IdleRequest]
    /\ uploaded_pdf = "none"

SpecServer == InitServer /\ [][NextServer]_vars

\* upload_pdf from line 37 on: extraction, then segmentation and alignment of
\* what it returned
NextUpload ==
    \/ NextExtract
    \/ (Len(text) <= MaxUploadText /\ NextSplit)
    \/ NextAlign

SpecUpload == InitExtract /\ [][NextUpload]_vars

\* the loop is a sequential program: a step that can be taken is taken
LiveAlign == InitAlign /\ [][NextAlign]_vars /\ WF_vars(NextAlign)

\* the alignment loop, run once or twice over the same sentence records
SpecRerun == InitAlign /\ [][NextRerun]_vars

----------------------------------------------------------------------------
(* Properties of the alignment loop *)

\* a string with its whitespace characters dropped, one character at a time
RECURSIVE NoWs(_)
NoWs(s) == IF s = << >> THEN << >>
           ELSE IF Head(s) \in {" ", "\n", "\t", "\r"} THEN NoWs(Tail(s))
           ELSE <<Head(s)>> \o NoWs(Tail(s))

Matched(i) == enriched_sentences[i].bboxes # << >>

\* C1: every emitted sentence with a non-empty bounding-box list was given a
\* slice [start, end) of the coordinate array, and the text buffer's
\* characters text[start:end] with whitespace removed are the sentence text
\* with whitespace removed.
CharacterAccurate ==
    \A i \in 1..Len(enriched_sentences) :
        Matched(i) =>
            LET start == slices[i][1]
                end == slices[i][2]
            IN  /\ 0 <= start /\ start < end /\ end <= Len(text)
                /\ enriched_sentences[i].bboxes = SubSeq(char_map, start + 1, end)
                /\ NoWs(SubSeq(text, start + 1, end))
                     = NoWs(enriched_sentences[i].text)

\* a matched sentence of two characters whose slice spans whitespace that the
\* sentence text does not have
WitnessCharacterAccurate ==
    \E i \in 1..Len(enriched_sentences) :
        /\ Matched(i)
        /\ SubSeq(text, slices[i][1] + 1, slices[i][2]) # enriched_sentences[i].text
        /\ Len(enriched_sentences[i].text) = 2

NoOverlap ==
    \A i, j \in 1..Len(slices) :
        (i < j /\ slices[i] # <<-1, -1>> /\ slices[j] # <<-1, -1>>)
            => slices[j][1] >= slices[i][2]

\* C2: the cursor never decreases, and of any two matched sentences the later
\* one's slice starts at or after the earlier one's slice end.
CursorMonotonic == [][current_idx' >= current_idx /\ NoOverlap']_vars

\* two matched sentences, the later one after a gap
WitnessCursorMonotonic ==
    /\ Len(slices) = 2
    /\ slices[1] # <<-1, -1>> /\ slices[2] # <<-1, -1>>
    /\ slices[2][1] > slices[1][2]
    /\ current_idx = slices[2][2]

\* the start of the attempt in progress, or the scan position between attempts
AttemptBase == IF match_start = -1 THEN temp_idx ELSE match_start

\* C5: within one scan every loop iteration moves (attempt start, scan
\* position) strictly forward in lexicographic order, a restart moving the
\* attempt start strictly forward; and every alignment run reaches the return
\* of upload_pdf.
ScanTerminates ==
    /\ [][(pc = "scan" /\ pc' = "scan") =>
            \/ AttemptBase' > AttemptBase
            \/ (AttemptBase' = AttemptBase /\ temp_idx' > temp_idx)]_vars
    /\ <>(pc = "done")

\* the scan just after a restart: the character before the scan position
\* starts the needle, yet no attempt is in progress
WitnessScanTerminates ==
    /\ pc = "scan"
    /\ match_start = -1 /\ s_ptr = 0
    /\ temp_idx > current_idx
    /\ text[temp_idx] = s_text_clean[1]

\* C6: when upload_pdf returns, there is exactly one record per input
\* sentence, in input order, with the input id and text, each with a
\* bounding-box list; on the way, the records emitted so far are those of the
\* sentences taken so far.
OneRecordPerSentence ==
    /\ Len(enriched_sentences) = si
    /\ si <= Len(sentences)
    /\ pc = "done" => si = Len(sentences)
    /\ \A i \in 1..Len(enriched_sentences) :
          /\ enriched_sentences[i].id = sentences[i].id
          /\ enriched_sentences[i].text = sentences[i].text
          /\ DOMAIN enriched_sentences[i] = {"id", "text", "bboxes"}
          /\ \E n \in 0..Len(char_map) :
                DOMAIN enriched_sentences[i].bboxes = 1..n

\* a returned list where a sentence that was searched for and not found is
\* followed by a sentence that was found
WitnessOneRecordPerSentence ==
    /\ pc = "done"
    /\ \E i, j \in 1..Len(enriched_sentences) :
          /\ i < j
          /\ ~Matched(i) /\ NoWs(sentences[i].text) # << >>
          /\ Matched(j)

\* C7: only the emission of a sentence with a non-empty bounding-box list
\* changes the cursor; every other step, the emission of a sentence with an
\* empty list included, leaves it as it was.
CursorFrame ==
    [][current_idx' # current_idx =>
         /\ Len(enriched_sentences') = Len(enriched_sentences) + 1
         /\ enriched_sentences'[Len(enriched_sentences')].bboxes # << >>]_vars

\* a sentence just emitted with no boxes after a scan that had moved on and
\* held a partial match when the buffer ended
WitnessCursorFrame ==
    /\ pc = "align" /\ si > 0
    /\ ~Matched(si)
    /\ s_text_clean # << >>
    /\ match_start # -1 /\ s_ptr > 0
    /\ temp_idx > current_idx
    /\ si < Len(sentences)

----------------------------------------------------------------------------
(* Properties of segmentation, and of segmentation followed by alignment *)

Blank(t) == NoWs(t) = << >>

\* C9: the sentences collected so far carry the ids 0, 1, ... in list order,
\* the counter is the number of sentences collected, and every sentence text
\* is non-empty and neither starts nor ends with a whitespace character.
SequentialIds ==
    /\ global_id = Len(sentences)
    /\ \A i \in 1..Len(sentences) :
          LET t == sentences[i].text
          IN  /\ sentences[i].id = i - 1
              /\ t # << >>
              /\ ~IsSpace(t[1]) /\ ~IsSpace(t[Len(t)])

\* split_into_sentences has returned two or more sentences of a text whose
\* chunks are a non-blank one, a blank one and a non-blank one
WitnessSequentialIds ==
    /\ pc = "align"
    /\ Len(chunks) = 3
    /\ ~Blank(chunks[1]) /\ Blank(chunks[2]) /\ ~Blank(chunks[3])
    /\ Len(sentences) >= 2
    /\ sentences[Len(sentences)].id = Len(sentences) - 1

\* the start positions of the literal occurrences of t in the text buffer
Occurrences(t) ==
    {p \in 0..(Len(text) - Len(t)) :
        \A k \in 1..Len(t) : text[p + k] = t[k]}

\* the text buffer holds exactly two occurrences of t, with other text between
TwoOccurrences(t, p1, p2) ==
    /\ Occurrences(t) = {p1, p2}
    /\ p1 + Len(t) < p2
    /\ ~Blank(SubSeq(text, p1 + Len(t) + 1, p2))

\* C4: when upload_pdf returns, two sentences with the same text never hold
\* the same slice; and if they have other sentences between them and the text
\* buffer holds exactly two occurrences of their text, separated by other
\* text, the earlier sentence holds the first occurrence's slice and the later
\* one the second's.
RepeatedSentenceOrder ==
    pc = "done" =>
      \A i, j \in 1..Len(sentences) :
        (i < j /\ sentences[i].text = sentences[j].text) =>
          LET t == sentences[i].text
          IN  /\ ~(Matched(i) /\ Matched(j) /\ slices[i] = slices[j])
              /\ \A p1, p2 \in Occurrences(t) :
                    (j > i + 1 /\ TwoOccurrences(t, p1, p2)) =>
                        /\ slices[i] = <<p1, p1 + Len(t)>>
                        /\ slices[j] = <<p2, p2 + Len(t)>>

\* a returned run with a repeated sentence, another sentence in between, and
\* exactly two occurrences of the repeated text in the buffer
WitnessRepeatedSentenceOrder ==
    /\ pc = "done"
    /\ \E i, j \in 1..Len(sentences) :
          /\ j > i + 1
          /\ sentences[i].text = sentences[j].text
          /\ \E p1, p2 \in Occurrences(sentences[i].text) :
                /\ TwoOccurrences(sentences[i].text, p1, p2)
                /\ slices[i][1] = p1 /\ slices[j][1] = p2

\* the index in the text buffer of the first character of chunk j
RECURSIVE ChunkLo(_)
ChunkLo(j) == IF j = 1 THEN 0 ELSE ChunkLo(j - 1) + Len(chunks[j - 1]) + 2

\* the detector returned every paragraph as exactly one sentence
OneSentencePerParagraph ==
    /\ Len(sentences) <= Len(chunks)
    /\ \A j \in 1..Len(chunks) :
          IF j <= Len(sentences)
          THEN sentences[j].text = Strip(chunks[j])
          ELSE Blank(chunks[j])

\* C8: when every paragraph came back as exactly one sentence, upload_pdf
\* returns one sentence per paragraph with ids 0..k-1, each with a non-empty
\* slice inside its own paragraph's index range, the slices pairwise disjoint.
ParagraphSlices ==
    (pc = "done" /\ OneSentencePerParagraph) =>
        /\ Len(enriched_sentences) = Len(sentences)
        /\ \A i \in 1..Len(sentences) :
              /\ enriched_sentences[i].id = i - 1
              /\ Matched(i)
              /\ ChunkLo(i) <= slices[i][1]
              /\ slices[i][1] < slices[i][2]
              /\ slices[i][2] <= ChunkLo(i) + Len(chunks[i])
        /\ \A i, j \in 1..Len(sentences) :
              i < j => slices[i][2] <= slices[j][1]

\* a returned run on three paragraphs, each one sentence, two of them equal
WitnessParagraphSlices ==
    /\ pc = "done"
    /\ OneSentencePerParagraph
    /\ Len(sentences) = 3
    /\ sentences[1].text = sentences[3].text
    /\ Matched(1) /\ Matched(2) /\ Matched(3)

----------------------------------------------------------------------------
(* Further properties of the alignment loop *)

\* the scan of the sentence in hand has stopped
ScanStopped == pc = "scan" /\ ~(temp_idx < Len(text) /\ s_ptr < Len(s_text_clean))

\* the strict scan ended with the whole needle matched
StrictSuccess == match_start # -1 /\ s_ptr = Len(s_text_clean)

\* the indices, from index from on, of the buffer's characters that are not
\* whitespace, in increasing order
RECURSIVE NonWsFrom(_)
NonWsFrom(from) ==
    IF from >= Len(text) THEN << >>
    ELSE (IF text[from + 1] \in {" ", "\n", "\t", "\r"} THEN << >>
          ELSE <<from>>) \o NonWsFrom(from + 1)

\* the places in the sequence of indices P where needle occurs as a
\* contiguous run of the characters at those indices
StreamOccurrences(P, needle) ==
    {k \in 1..(Len(P) - Len(needle) + 1) :
        \A m \in 1..Len(needle) : text[P[k + m - 1] + 1] = needle[m]}

\* C15: when the strict scan stops, it has succeeded exactly when the needle
\* occurs as a contiguous run in the non-whitespace characters of the buffer
\* at indices >= cursor; and then match_start is the buffer index of the first
\* character of the leftmost such occurrence and the scan position is one past
\* the buffer index of its last character.
ScanIsLeftmostSearch ==
    ScanStopped =>
        LET P == NonWsFrom(current_idx)
            occ == StreamOccurrences(P, s_text_clean)
        IN  /\ StrictSuccess <=> occ # {}
            /\ StrictSuccess =>
                  LET k == CHOOSE x \in occ : \A y \in occ : x <= y
                  IN  /\ match_start = P[k]
                      /\ temp_idx = P[k + Len(s_text_clean) - 1] + 1

\* a scan that succeeded after a false start: the needle's first character
\* stands in the buffer between the cursor and the match that was found
WitnessScanIsLeftmostSearch ==
    /\ ScanStopped /\ StrictSuccess
    /\ Len(s_text_clean) >= 2
    /\ \E i \in current_idx..(match_start - 1) : text[i + 1] = s_text_clean[1]

\* the cursor the loop held after the first n sentences
RECURSIVE CursorAfter(_)
CursorAfter(n) ==
    IF n = 0 THEN 0
    ELSE IF slices[n] # <<-1, -1>> THEN slices[n][2]
    ELSE CursorAfter(n - 1)

\* C16: when the strict scan stops without success, the sentence text does not
\* occur literally in the buffer at any index >= cursor; and a sentence whose
\* strict scan failed is emitted with an empty bounding-box list and the
\* cursor as it was before the sentence.
FallbackNeverMatches ==
    /\ (ScanStopped /\ ~StrictSuccess) =>
          \A p \in Occurrences(sentences[si + 1].text) : p < current_idx
    /\ (pc \in {"align", "done"} /\ si > 0 /\ s_text_clean # << >>
          /\ ~StrictSuccess) =>
          /\ enriched_sentences[si].bboxes = << >>
          /\ slices[si] = <<-1, -1>>
          /\ current_idx = CursorAfter(si - 1)

\* a sentence just emitted after a failed strict scan, its text standing in
\* the buffer before the cursor only
WitnessFallbackNeverMatches ==
    /\ pc = "align" /\ si > 0
    /\ s_text_clean # << >> /\ ~StrictSuccess
    /\ current_idx > 0
    /\ Occurrences(sentences[si].text) # {}

\* the characters of the buffer's span [lo, hi), whitespace removed, are those
\* of sentence i, whitespace removed
SpanOf(i, lo, hi) ==
    NoWs(SubSeq(text, lo + 1, hi)) = NoWs(sentences[i].text)

\* however the sentences from i on are laid, in order, on spans of the buffer
\* that start at or after p, each has boxes, from a slice that ends at or
\* before the end of its span
RECURSIVE WithinSpans(_, _)
WithinSpans(i, p) ==
    \/ i > Len(sentences)
    \/ \A lo \in p..Len(text) : \A hi \in lo..Len(text) :
          SpanOf(i, lo, hi) =>
              /\ enriched_sentences[i].bboxes # << >>
              /\ slices[i][2] <= hi
              /\ WithinSpans(i + 1, hi)

\* the sentences from i on can be laid, in order, on spans that start at or
\* after p
RECURSIVE Laid(_, _)
Laid(i, p) ==
    \/ i > Len(sentences)
    \/ \E lo \in p..Len(text) : \E hi \in lo..Len(text) :
          SpanOf(i, lo, hi) /\ Laid(i + 1, hi)

\* every sentence has a character that is not whitespace, as every sentence
\* split_into_sentences returns has
NoBlankSentence == \A i \in 1..Len(sentences) : NoWs(sentences[i].text) # << >>

\* C17: when upload_pdf returns, for every way of laying the sentences (none
\* of them blank) in list order on non-overlapping spans of the buffer, gaps
\* allowed, every sentence laid has a non-empty bounding-box list whose slice
\* ends at or before the end of the sentence's span.
OrderedSpansAllMatched ==
    (pc = "done" /\ NoBlankSentence) => WithinSpans(1, 0)

\* a returned run on two sentences of the same text that lie on spans with
\* other text between them
WitnessOrderedSpansAllMatched ==
    /\ pc = "done" /\ NoBlankSentence
    /\ Len(sentences) = 2
    /\ sentences[1].text = sentences[2].text
    /\ Laid(1, 0)
    /\ slices[2][1] > slices[1][2]
    /\ NoWs(SubSeq(text, slices[1][2] + 1, slices[2][1])) # << >>

\* C14: a second run of the alignment loop over the same text buffer,
\* coordinate array and sentence records (which carry the first run's
\* bounding-box lists) ends with the same slice for every sentence, the same
\* bounding-box lists and the same cursor as the first run.
AlignmentIdempotent ==
    (pc = "done" /\ first_run # << >>) =>
        /\ slices = first_run[1]
        /\ current_idx = first_run[2]
        /\ enriched_sentences = sentences

\* a second run has returned, with a sentence that was found after one that
\* was searched for and not found
WitnessAlignmentIdempotent ==
    /\ pc = "done" /\ first_run # << >>
    /\ \E i, j \in 1..Len(slices) :
          /\ i < j
          /\ slices[i] = <<-1, -1>> /\ NoWs(sentences[i].text) # << >>
          /\ slices[j] # <<-1, -1>>

----------------------------------------------------------------------------
(* Properties of extraction *)

\* every glyph of every block a page can hold, as <<character, bbox>>
CatalogGlyphs ==
    LET Range(f) == {f[i] : i \in DOMAIN f}
        glyphs == UNION {UNION {UNION {Range(sp.chars) : sp \in Range(l.spans)} :
                                l \in Range(b.lines)} :
                         b \in BlockSet}
    IN  {<<g.c, g.bbox>> : g \in glyphs}

\* rec is a record of the character c: of a glyph that shows c in the box
\* rec describes, or the flagged record of a space or newline
RecordOf(rec, c) ==
    IF rec.flag = "space" THEN c = " "
    ELSE IF rec.flag = "newline" THEN c = "\n"
    ELSE LET top == rec.page_height - rec.y - rec.height
         IN  <<c, <<rec.x, top, rec.x + rec.width, top + rec.height>>>>
                \in CatalogGlyphs

\* C3: after every step of extraction full_text and char_map have the same
\* length, as have block_text and block_chars, and the record at each index is
\* the record of the character at that index.
LockStep ==
    /\ Len(full_text) = Len(char_map)
    /\ Len(block_text) = Len(block_chars)
    /\ \A i \in 1..Len(char_map) : RecordOf(char_map[i], full_text[i])
    /\ \A i \in 1..Len(block_chars) : RecordOf(block_chars[i], block_text[i])

\* on a second page, a block whose lines end in whitespace has been trimmed,
\* appended and separated, and an all-whitespace block after it dropped
WitnessLockStep ==
    /\ pc = "block"
    /\ page_num = 1 /\ bi = 2
    /\ sorted_blocks = <<MultiLineBlock, BlankBlock>>
    /\ Len(emitted) >= 2
    /\ emitted[Len(emitted)] = [page |-> 2, block |-> MultiLineBlock]
    /\ \E i \in 1..Len(char_map) : char_map[i].flag = "space"

\* the text a block contributes: its lines' characters, a space after each
\* line that does not end in " ", "\n" or "\t", trailing whitespace dropped
ExpectedBlockText ==
    LET lineText(l) == [k \in 1..Len(LineGlyphs(l)) |-> LineGlyphs(l)[k].c]
        spaced(t) == IF t = << >> \/ t[Len(t)] \in {" ", "\n", "\t"}
                     THEN t ELSE t \o <<" ">>
    IN  [b \in BlockSet |->
           RStrip(Concat([i \in 1..Len(b.lines) |-> spaced(lineText(b.lines[i]))]))]

\* the two records after the record at index n are those of a separator
SeparatorAt(n) ==
    \A k \in {n + 1, n + 2} :
        /\ char_map[k].flag = "newline" /\ char_map[k].width = 0
        /\ char_map[k].page = char_map[n].page
        /\ char_map[k].x = char_map[n].x /\ char_map[k].y = char_map[n].y
        /\ char_map[k].height = char_map[n].height
        /\ char_map[n].flag # "newline"

\* the first n emitted blocks fill full_text up to index at, each with its
\* separator
RECURSIVE EmittedUpTo(_, _)
EmittedUpTo(n, at) ==
    IF n = 0 THEN at = 0
    ELSE LET t == ExpectedBlockText[emitted[n].block]
             from == at - Len(t) - 2
         IN  /\ t # << >>
             /\ from >= 0
             /\ SubSeq(full_text, from + 1, at) = t \o <<"\n", "\n">>
             /\ SeparatorAt(at - 2)
             /\ char_map[at].page = emitted[n].page
             /\ n > 1 => emitted[n - 1].page <= emitted[n].page
             /\ EmittedUpTo(n - 1, from)

\* C10: between blocks, full_text is the emitted blocks' trimmed texts in the
\* order of emission, each followed by two newlines; emission follows page
\* order and, within the page, the processing order of the blocks that are
\* neither filtered nor blank; and the two records at each separator are
\* newline-flagged, of width 0, with page, x, y and height of the record before
\* them, heading or not.
SeparatedBlocks ==
    pc \in {"page", "block", "split"} =>
        /\ Len(char_map) = Len(full_text)
        /\ EmittedUpTo(Len(emitted), Len(full_text))
        /\ pc = "block" =>
              LET here == SelectSeq(emitted, LAMBDA e : e.page = page_num + 1)
                  kept == SelectSeq(SubSeq(sorted_blocks, 1, bi),
                              LAMBDA b : /\ ~Filtered(page, b)
                                         /\ ExpectedBlockText[b] # << >>)
              IN  [i \in 1..Len(here) |-> here[i].block] = kept

\* on a second page, a block that was not classified as a heading and one
\* that was have both been appended and separated
WitnessSeparatedBlocks ==
    /\ pc = "block"
    /\ page_num = 1 /\ bi = 2
    /\ sorted_blocks = <<BodyBlock, HeadingBlock>>
    /\ 10 * 10 <= heading_threshold /\ 10 * 14 > heading_threshold
    /\ Len(emitted) >= 3
    /\ emitted[Len(emitted) - 1] = [page |-> 2, block |-> BodyBlock]
    /\ emitted[Len(emitted)] = [page |-> 2, block |-> HeadingBlock]

\* the text of a line: the characters of its glyphs that carry one, spans
\* taken by their left edge
LineText(l) == [k \in 1..Len(LineGlyphs(l)) |-> LineGlyphs(l)[k].c]

\* C18: after each line with text of a surviving block, the line's text is
\* appended, followed by exactly one space with a space-flagged record (page,
\* y and height of the line's last glyph, x = last.x + last.width) if the
\* line's text does not end in a whitespace character, and by nothing if it
\* ends in any whitespace character.
SpaceUnlessWhitespace ==
    [][(pc = "line" /\ li < Len(CurBlock.lines)
          /\ LineText(CurBlock.lines[li + 1]) # << >>) =>
         LET t == LineText(CurBlock.lines[li + 1])
             n == Len(block_chars) + Len(t)
         IN  IF t[Len(t)] \in {" ", "\n", "\t", "\r"}
             THEN /\ block_text' = block_text \o t
                  /\ Len(block_chars') = n
             ELSE /\ block_text' = block_text \o t \o <<" ">>
                  /\ Len(block_chars') = n + 1
                  /\ block_chars'[n + 1].flag = "space"
                  /\ block_chars'[n + 1].page = block_chars'[n].page
                  /\ block_chars'[n + 1].y = block_chars'[n].y
                  /\ block_chars'[n + 1].height = block_chars'[n].height
                  /\ block_chars'[n + 1].x
                       = block_chars'[n].x + block_chars'[n].width]_vars

\* the point in the middle of box lies strictly inside rect
CentreInside(box, rect) ==
    /\ 2 * rect[1] < box[1] + box[3] /\ box[1] + box[3] < 2 * rect[3]
    /\ 2 * rect[2] < box[2] + box[4] /\ box[2] + box[4] < 2 * rect[4]

\* box and rect have a region in common
Overlaps(box, rect) ==
    /\ box[1] < rect[3] /\ rect[1] < box[3]
    /\ box[2] < rect[4] /\ rect[2] < box[4]

\* the block loop passes over the block it is at
Discards == pc' = "block" /\ bi' = bi + 1

\* the centre of box lies inside a table or an image of the page
CentreInObstacle(box) ==
    \E r \in page.tables \cup page.images : CentreInside(box, r)

\* C19 as stated: a block is discarded if and only if its box ends at or above
\* the header margin line (5% of the page height) or starts at or below the
\* footer margin line (95%), a box with its edge exactly on the line counting
\* as within the margin, or its centre lies inside a table or image box.
DiscardedIffInMarginClosed ==
    [][(pc = "block" /\ bi < Len(sorted_blocks)) =>
         LET box == CurBlock.bbox
         IN  Discards <=>
                \/ 20 * box[4] <= page.height
                \/ 20 * box[2] >= 19 * page.height
                \/ CentreInObstacle(box)]_vars

\* C19, amended: a block is discarded if and only if its box ends strictly
\* above the header margin line or starts strictly below the footer margin
\* line, or its centre lies inside a table or image box; so a block whose box
\* overlaps a table or image while its centre lies outside every one is kept,
\* and so is a block whose edge lies exactly on a margin line.
DiscardedIffInMargin ==
    [][(pc = "block" /\ bi < Len(sorted_blocks)) =>
         LET box == CurBlock.bbox
         IN  /\ Discards <=>
                   \/ 20 * box[4] < page.height
                   \/ 20 * box[2] > 19 * page.height
                   \/ CentreInObstacle(box)
             /\ ((\E r \in page.tables \cup page.images : Overlaps(box, r))
                   /\ ~CentreInObstacle(box)
                   /\ 20 * box[4] >= page.height
                   /\ 20 * box[2] <= 19 * page.height) => ~Discards
             /\ ((20 * box[4] = page.height \/ 20 * box[2] = 19 * page.height)
                   /\ ~CentreInObstacle(box)) => ~Discards]_vars

\* a block whose bottom edge is on the header margin line has been kept and
\* appended, and the block that overlaps the table is being read
WitnessDiscardedIffInMargin ==
    /\ pc = "line"
    /\ sorted_blocks = <<HeadingBlock, MultiLineBlock>>
    /\ bi = 1
    /\ emitted # << >>
    /\ emitted[Len(emitted)] = [page |-> page_num + 1, block |-> HeadingBlock]
    /\ \E r \in page.tables : Overlaps(CurBlock.bbox, r)

\* the row of ten a block starts in: floor(top_y / 10)
Row(b) == CHOOSE q \in 0..20 : 10 * q <= b.bbox[2] /\ b.bbox[2] < 10 * q + 10

\* C20 as stated: of any two blocks appended from one page whose top_y differ
\* by less than 10, the one with the smaller left_x is appended first.
NearRowsLeftFirst ==
    \A i, j \in 1..Len(emitted) :
        (i < j /\ emitted[i].page = emitted[j].page) =>
            LET a == emitted[i].block.bbox
                b == emitted[j].block.bbox
            IN  (a[2] - b[2] < 10 /\ b[2] - a[2] < 10) => a[1] <= b[1]

\* C20, amended: the blocks appended from one page are in non-decreasing order
\* of (floor(top_y / 10), left_x); so of any two of them that start in the
\* same row of ten the one with the smaller left_x is appended first.
RowsThenLeft ==
    \A i, j \in 1..Len(emitted) :
        (i < j /\ emitted[i].page = emitted[j].page) =>
            LET a == emitted[i].block
                b == emitted[j].block
            IN  /\ Row(a) <= Row(b)
                /\ Row(a) = Row(b) => a.bbox[1] <= b.bbox[1]

\* two blocks of one row of ten have been appended, the left one first though
\* it starts lower on the page
WitnessRowsThenLeft ==
    \E i, j \in 1..Len(emitted) :
        /\ i < j /\ emitted[i].page = emitted[j].page
        /\ Row(emitted[i].block) = Row(emitted[j].block)
        /\ emitted[i].block.bbox[1] < emitted[j].block.bbox[1]
        /\ emitted[i].block.bbox[2] > emitted[j].block.bbox[2]

\* block b leaves nothing in the text: the filter discards it, or it has no
\* text once trimmed
LeavesNothing(b) == Filtered(page, b) \/ ExpectedBlockText[b] = << >>

\* C11: a page whose blocks taken so far were all discarded or blank has no
\* record and no character in the buffers; while no block of any page has
\* survived the text buffer and the coordinate array are empty, with no
\* separator; and after extraction has returned an empty text,
\* split_into_sentences collects no sentence, the alignment loop emits none,
\* and upload_pdf goes on to its return.
EmptyDocument ==
    /\ Len(full_text) = Len(char_map)
    /\ (pc = "block" /\ \A k \in 1..bi : LeavesNothing(sorted_blocks[k])) =>
          /\ \A i \in 1..Len(char_map) : char_map[i].page # page_num + 1
          /\ \A i \in 1..Len(emitted) : emitted[i].page # page_num + 1
    /\ emitted = << >> => (full_text = << >> /\ char_map = << >>)
    /\ (emitted = << >> /\ pc \in {"split", "chunk", "sent", "align", "scan",
                                  "done"}) =>
          /\ text = << >> /\ char_map = << >>
          /\ sentences = << >> /\ enriched_sentences = << >>
          /\ pc \notin {"sent", "scan"}
          /\ pc # "done" => ENABLED NextUpload

\* on the second page of a document no block of which has survived so far, a
\* block in the header margin has been discarded and a blank block dropped
WitnessEmptyDocument ==
    /\ pc = "block"
    /\ page_num = 1 /\ bi = 2
    /\ sorted_blocks = <<HeaderBlock, BlankBlock>>
    /\ emitted = << >>
    /\ full_text = << >> /\ char_map = << >>

----------------------------------------------------------------------------
(* Properties of the server *)

\* C12: a request whose body is not a PDF never enters extraction,
\* segmentation or alignment, and is answered with a rejection that carries a
\* reason.
NonPdfRejectedBeforeExtraction ==
    \A r \in 1..MaxRequests :
        (requests[r].pc # "idle" /\ requests[r].body = "junk") =>
            /\ requests[r].stage \in {"check", "read"}
            /\ requests[r].pc = "responded" =>
                  /\ requests[r].response.status = 400
                  /\ requests[r].response.detail # ""

\* C13: whenever a request has been answered with sentences and a pdfUrl, the
\* document served at that pdfUrl is the document the request uploaded and
\* whose sentences it was given.
ServedIsUploaded ==
    \A r \in 1..MaxRequests :
        requests[r].response.status = 200 =>
            /\ requests[r].response.sentences = requests[r].content
            /\ Served(requests[r].response.pdfUrl) = requests[r].content

====
